---- MODULE Spec2Model ----
(***************************************************************************)
(* Model of the android_looper crate (src/src/lib.rs, src/src/error.rs):   *)
(* LooperRef, AcquiredLooper and the four native ALooper entry points the  *)
(* crate forwards to.  The native library is modelled as thread-local      *)
(* looper association plus a strong reference count per looper object.     *)
(***************************************************************************)
EXTENDS Integers, FiniteSets

\* ---------------------------------------------------------------- bounds
MaxLoopers == 2
MaxAcquired == 2

\* the preparing thread and the thread a looper is handed to
Threads == {"A", "B"}
Handles == 1..MaxLoopers
\* ptr::null_mut(): the null LooperHandle
Null == 0
LooperHandle == Handles \cup {Null}

VARIABLES
    threadAlive,    \* [Threads -> BOOLEAN]   thread has not exited
    threadLooper,   \* [Threads -> LooperHandle] native thread-local looper
    status,         \* [Handles -> {"unalloc","live","freed"}] native object
    refcount,       \* [Handles -> Nat]       native strong reference count
    pending,        \* [Handles -> BOOLEAN] some callback has pending data
    calls,          \* [Handles -> [acquire, release]] entry point invocations
    refs,           \* [Threads -> SUBSET LooperRef] the LooperRef variable of each thread
    acq,            \* [Threads -> [Handles -> Nat]] AcquiredLooper values held
    created,        \* [Handles -> Nat] AcquiredLooper values constructed
    dropped,        \* [Handles -> Nat] AcquiredLooper values destroyed
    first,          \* [Threads -> LooperHandle] handle of the thread's first Ok prepare
    preAcquire,     \* [Handles -> Nat] refcount before the oldest outstanding acquire
    lastOp          \* record of the last operation performed and its result

vars == <<threadAlive, threadLooper, status, refcount, pending, calls, refs,
          acq, created, dropped, first, preAcquire, lastOp>>

nativeVars == <<threadLooper, status, refcount, pending, calls>>

\* ------------------------------------------------------------ error.rs
PrepareLooperFailed == "PrepareLooperFailed"
Error == {PrepareLooperFailed}

\* --------------------------------------------------------- LooperRef
\* struct LooperRef { handle: LooperHandle }
LooperRef == [handle : LooperHandle]

\* from_handle that loses its argument
from_handle_null(h) == [handle |-> Null]

\* LooperRef::from_handle
from_handle(h) == [handle |-> h]

\* LooperRef::handle
handle(self) == self.handle

\* prepare without the is_null() check
prepare_unchecked(looper_handle) ==
    [ok |-> TRUE, err |-> "none", val |-> [handle |-> looper_handle]]

\* Result<LooperRef> of LooperRef::prepare for the handle the native call gave
prepare(looper_handle) ==
    IF looper_handle = Null
    THEN [ok |-> FALSE, err |-> PrepareLooperFailed, val |-> from_handle(Null)]
    ELSE [ok |-> TRUE, err |-> "none", val |-> [handle |-> looper_handle]]

\* ------------------------------------------------- native library (ffi)
Outstanding(h) ==
    acq["A"][h] + acq["B"][h]

TotalCreated ==
    LET RECURSIVE Sum(_)
        Sum(n) == IF n = 0 THEN 0 ELSE created[n] + Sum(n - 1)
    IN Sum(MaxLoopers)

\* ALooper_acquire(looper): increment the reference count
ALooper_acquire(h) ==
    /\ refcount' = [refcount EXCEPT ![h] = @ + 1]
    /\ calls' = [calls EXCEPT ![h].acquire = @ + 1]
    /\ UNCHANGED <<threadLooper, status, pending>>

\* ALooper_release(looper): decrement; the object is deleted at zero
ALooper_release(h) ==
    /\ refcount' = [refcount EXCEPT ![h] = @ - 1]
    /\ calls' = [calls EXCEPT ![h].release = @ + 1]
    /\ status' = IF refcount[h] = 1 THEN [status EXCEPT ![h] = "freed"] ELSE status
    /\ pending' = IF refcount[h] = 1 THEN [pending EXCEPT ![h] = FALSE] ELSE pending
    /\ UNCHANGED threadLooper

\* the looper ALooper_pollAll drains: the one of the calling thread
PollTarget(t) == threadLooper[t]

\* ALooper_pollAll waits for data when the timeout is not zero and the
\* calling thread's looper has nothing pending
WouldBlock(t, timeoutMillis) ==
    timeoutMillis # 0 /\ PollTarget(t) # Null /\ ~pending[PollTarget(t)]

\* ALooper_pollAll(timeoutMillis, NULL, NULL, NULL) called on thread t
ALooper_pollAll(t, timeoutMillis) ==
    /\ pending' = IF PollTarget(t) # Null
                  THEN [pending EXCEPT ![PollTarget(t)] = FALSE]
                  ELSE pending
    /\ UNCHANGED <<threadLooper, status, refcount, calls>>

\* smallest handle not yet allocated
FreshHandle == CHOOSE h \in Handles :
                  /\ status[h] = "unalloc"
                  /\ \A g \in Handles : status[g] = "unalloc" => h <= g

\* ALooper_prepare(opts) on thread t returning n: the thread's looper if it
\* has one; otherwise a looper is created and associated with the thread, or
\* creation fails and null is returned
ALooper_prepare(t, n) ==
    /\ IF threadLooper[t] # Null
       THEN n = threadLooper[t]
       ELSE \/ n = Null
            \/ /\ \E h \in Handles : status[h] = "unalloc"
               /\ n = FreshHandle
    /\ IF threadLooper[t] = Null /\ n # Null
       THEN /\ threadLooper' = [threadLooper EXCEPT ![t] = n]
            /\ status' = [status EXCEPT ![n] = "live"]
            /\ refcount' = [refcount EXCEPT ![n] = 1]
       ELSE UNCHANGED <<threadLooper, status, refcount>>
    /\ UNCHANGED <<pending, calls>>

NoOp == [op |-> "none", thread |-> "A", arg |-> Null, native |-> Null,
         ok |-> TRUE, err |-> "none", out |-> Null, had |-> Null,
         ran |-> {}, blocked |-> FALSE]

\* ------------------------------------------------------------- Init
Init ==
    /\ threadAlive = [t \in Threads |-> TRUE]
    /\ threadLooper = [t \in Threads |-> Null]
    /\ status = [h \in Handles |-> "unalloc"]
    /\ refcount = [h \in Handles |-> 0]
    /\ pending = [h \in Handles |-> FALSE]
    /\ calls = [h \in Handles |-> [acquire |-> 0, release |-> 0]]
    /\ refs = [t \in Threads |-> {}]
    /\ acq = [t \in Threads |-> [h \in Handles |-> 0]]
    /\ created = [h \in Handles |-> 0]
    /\ dropped = [h \in Handles |-> 0]
    /\ first = [t \in Threads |-> Null]
    /\ preAcquire = [h \in Handles |-> 0]
    /\ lastOp = NoOp

\* ---------------------------------------------------------- actions
\* LooperRef::prepare on thread t; ALooper_prepare returns the thread's
\* looper, or creates one (n = fresh handle), or fails (n = Null)
Prepare(t) ==
    /\ threadAlive[t]
    /\ \E n \in LooperHandle :
        /\ ALooper_prepare(t, n)
        /\ first' = IF prepare(n).ok /\ first[t] = Null
                    THEN [first EXCEPT ![t] = handle(prepare(n).val)]
                    ELSE first
        /\ refs' = IF prepare(n).ok
                   THEN [refs EXCEPT ![t] = {prepare(n).val}]
                   ELSE refs
        /\ lastOp' = [NoOp EXCEPT !.op = "prepare", !.thread = t, !.native = n,
                                  !.ok = prepare(n).ok,
                                  !.err = prepare(n).err,
                                  !.out = handle(prepare(n).val),
                                  !.had = threadLooper[t]]
    /\ UNCHANGED <<threadAlive, acq, created, dropped, preAcquire>>

\* LooperRef::from_handle(h) followed by .handle()
FromHandle(t, h) ==
    /\ threadAlive[t]
    /\ refs' = [refs EXCEPT ![t] = {from_handle(h)}]
    /\ lastOp' = [NoOp EXCEPT !.op = "from_handle", !.thread = t, !.arg = h,
                              !.out = handle(from_handle(h))]
    /\ UNCHANGED <<threadAlive, nativeVars, acq, created, dropped, first, preAcquire>>

\* #[derive(Copy, Clone)]: a LooperRef copied to another thread
CopyRef(t, u, r) ==
    /\ threadAlive[t] /\ threadAlive[u] /\ t # u
    /\ r \in refs[t]
    /\ r \notin refs[u]
    /\ refs' = [refs EXCEPT ![u] = {r}]
    /\ lastOp' = [NoOp EXCEPT !.op = "copy"]
    /\ UNCHANGED <<threadAlive, nativeVars, acq, created, dropped, first, preAcquire>>

\* a LooperRef goes out of scope (no Drop impl)
ForgetRef(t, r) ==
    /\ threadAlive[t]
    /\ r \in refs[t]
    /\ refs' = [refs EXCEPT ![t] = @ \ {r}]
    /\ lastOp' = [NoOp EXCEPT !.op = "forget"]
    /\ UNCHANGED <<threadAlive, nativeVars, acq, created, dropped, first, preAcquire>>

\* from_ref that stores the handle without the native acquire call
from_ref_no_acquire(t, looper) ==
    /\ UNCHANGED nativeVars
    /\ acq' = [acq EXCEPT ![t][handle(looper)] = @ + 1]

\* AcquiredLooper::from_ref(looper), reached through LooperRef::acquire
from_ref(t, looper) ==
    /\ ALooper_acquire(handle(looper))
    /\ acq' = [acq EXCEPT ![t][handle(looper)] = @ + 1]

\* LooperRef::acquire on a live looper (acquire on a null or expired handle
\* is outside the contract of the native call and is not an input here)
Acquire(t, r) ==
    /\ threadAlive[t]
    /\ r \in refs[t]
    /\ handle(r) # Null
    /\ status[handle(r)] = "live"
    /\ TotalCreated < MaxAcquired
    /\ from_ref(t, r)
    /\ created' = [created EXCEPT ![handle(r)] = @ + 1]
    /\ preAcquire' = IF Outstanding(handle(r)) = 0
                     THEN [preAcquire EXCEPT ![handle(r)] = refcount[handle(r)]]
                     ELSE preAcquire
    /\ lastOp' = [NoOp EXCEPT !.op = "acquire", !.thread = t, !.arg = handle(r)]
    /\ UNCHANGED <<threadAlive, refs, dropped, first>>

\* impl Drop for AcquiredLooper
drop(h) == ALooper_acquire(h)

\* an AcquiredLooper held by thread t is destroyed
DropAcquired(t, h) ==
    /\ threadAlive[t]
    /\ acq[t][h] > 0
    /\ drop(h)
    /\ acq' = [acq EXCEPT ![t][h] = @ - 1]
    /\ dropped' = [dropped EXCEPT ![h] = @ + 1]
    /\ lastOp' = [NoOp EXCEPT !.op = "drop", !.thread = t, !.arg = h]
    /\ UNCHANGED <<threadAlive, refs, created, first, preAcquire>>

\* an AcquiredLooper is moved from thread t to thread u
MoveAcquired(t, u, h) ==
    /\ threadAlive[t] /\ threadAlive[u] /\ t # u
    /\ acq[t][h] > 0
    /\ acq' = [acq EXCEPT ![t][h] = @ - 1, ![u][h] = @ + 1]
    /\ lastOp' = [NoOp EXCEPT !.op = "move"]
    /\ UNCHANGED <<threadAlive, nativeVars, refs, created, dropped, first, preAcquire>>

\* poll_all_blind that waits without a timeout
poll_all_blind_wait(t, self) ==
    /\ ALooper_pollAll(t, -1)
    /\ lastOp' = [NoOp EXCEPT !.op = "poll", !.thread = t, !.arg = handle(self),
                              !.had = threadLooper[t],
                              !.ran = {h \in Handles : pending[h] /\ ~pending'[h]},
                              !.blocked = WouldBlock(t, -1)]

\* poll_all_blind that returns without the native call
poll_all_blind_skip(t, self) ==
    /\ UNCHANGED nativeVars
    /\ lastOp' = [NoOp EXCEPT !.op = "poll", !.thread = t, !.arg = handle(self),
                              !.had = threadLooper[t]]

\* LooperRef::poll_all_blind(&self) called on thread t
poll_all_blind(t, self) ==
    /\ ALooper_pollAll(t, 0)
    /\ lastOp' = [NoOp EXCEPT !.op = "poll", !.thread = t, !.arg = handle(self),
                              !.had = threadLooper[t],
                              !.ran = {h \in Handles : pending[h] /\ ~pending'[h]},
                              !.blocked = WouldBlock(t, 0)]

PollAllBlind(t, r) ==
    /\ threadAlive[t]
    /\ r \in refs[t]
    /\ poll_all_blind(t, r)
    /\ UNCHANGED <<threadAlive, refs, acq, created, dropped, first, preAcquire>>

\* data becomes available on a descriptor registered with looper h
DataArrives(h) ==
    /\ status[h] = "live"
    /\ ~pending[h]
    /\ pending' = [pending EXCEPT ![h] = TRUE]
    /\ lastOp' = [NoOp EXCEPT !.op = "data"]
    /\ UNCHANGED <<threadAlive, threadLooper, status, refcount, calls, refs,
                   acq, created, dropped, first, preAcquire>>

\* thread t exits holding no AcquiredLooper: its thread-local looper
\* reference is released by the native library
ThreadExit(t) ==
    /\ threadAlive[t]
    /\ \A h \in Handles : acq[t][h] = 0
    /\ threadAlive' = [threadAlive EXCEPT ![t] = FALSE]
    /\ refs' = [refs EXCEPT ![t] = {}]
    /\ IF threadLooper[t] # Null
       THEN LET h == threadLooper[t] IN
            /\ threadLooper' = [threadLooper EXCEPT ![t] = Null]
            /\ refcount' = [refcount EXCEPT ![h] = @ - 1]
            /\ status' = IF refcount[h] = 1
                         THEN [status EXCEPT ![h] = "freed"] ELSE status
            /\ pending' = IF refcount[h] = 1
                          THEN [pending EXCEPT ![h] = FALSE] ELSE pending
       ELSE UNCHANGED <<threadLooper, refcount, status, pending>>
    /\ lastOp' = [NoOp EXCEPT !.op = "exit"]
    /\ UNCHANGED <<calls, acq, created, dropped, first, preAcquire>>

Next ==
    \/ \E t \in Threads : Prepare(t)
    \/ \E t \in Threads, h \in LooperHandle : FromHandle(t, h)
    \/ \E t \in Threads, u \in Threads, r \in LooperRef : CopyRef(t, u, r)
    \/ \E t \in Threads, r \in LooperRef : ForgetRef(t, r)
    \/ \E t \in Threads, r \in LooperRef : Acquire(t, r)
    \/ \E t \in Threads, h \in Handles : DropAcquired(t, h)
    \/ \E t \in Threads, u \in Threads, h \in Handles : MoveAcquired(t, u, h)
    \/ \E t \in Threads, r \in LooperRef : PollAllBlind(t, r)
    \/ \E h \in Handles : DataArrives(h)
    \/ \E t \in Threads : ThreadExit(t)

Spec == Init /\ [][Next]_vars

\* ------------------------------------------------------------ helpers
\* references the native library itself holds on h (thread-local association)
Baseline(h) == Cardinality({t \in Threads : threadLooper[t] = h})

IsLooper(h) == h # Null /\ status[h] = "live"

Allocated == {h \in Handles : status[h] # "unalloc"}

\* ------------------------------------------------------------- claims

\* C1: constructing an AcquiredLooper raises the native reference count of
\* its handle by exactly 1 and destroying it lowers the count by exactly 1,
\* so the count after a scoped acquire and drop is the count before it.
C1_AcquireDropBracket ==
    [][\A h \in Handles :
        /\ created'[h] = created[h] + 1 => refcount'[h] = refcount[h] + 1
        /\ dropped'[h] = dropped[h] + 1 => refcount'[h] = refcount[h] - 1]_vars

\* C2: destruction calls the native release entry point once and never the
\* acquire entry point; acquire is called once per AcquiredLooper created.
C2_DropCallsRelease ==
    \A h \in Handles :
        /\ calls[h].release = dropped[h]
        /\ calls[h].acquire = created[h]

\* C3: the reference count of a live looper is its baseline plus the number
\* of AcquiredLooper values created for it and not yet dropped.
C3_CountIsBaselinePlusOutstanding ==
    \A h \in Handles :
        status[h] = "live" => refcount[h] = Baseline(h) + Outstanding(h)

\* C4: while an AcquiredLooper for h exists the native object h is not
\* deleted, also after the preparing thread has gone; the object is deleted
\* only when its reference count reaches zero.
C4_PinnedNotDeleted ==
    \A h \in Handles :
        /\ Outstanding(h) > 0 => status[h] = "live"
        /\ status[h] = "freed" => refcount[h] = 0
        /\ status[h] = "live" => refcount[h] > 0

C4_Witness ==
    \E h \in Handles :
        /\ Outstanding(h) > 0
        /\ Baseline(h) = 0
        /\ \E t \in Threads : ~threadAlive[t] /\ first[t] = h
        /\ status[h] = "live"

\* C5: after thread A prepares and acquires, the AcquiredLooper is moved to
\* thread B and B drops it, the reference count is back at its pre-acquire
\* value and the looper is still valid for A.
C5_HandOffRestoresCount ==
    \A h \in Handles :
        (/\ lastOp.op = "drop" /\ lastOp.arg = h
         /\ Outstanding(h) = 0
         /\ \E t \in Threads : t # lastOp.thread /\ threadLooper[t] = h)
        => /\ refcount[h] = preAcquire[h]
           /\ status[h] = "live"

\* C6: prepare returns Err(PrepareLooperFailed) exactly when the native call
\* yields null, otherwise Ok of a LooperRef with the native handle; it never
\* returns Ok with a null handle and never calls acquire or release.
C6_PrepareResult ==
    /\ [](lastOp.op = "prepare" =>
            /\ ~lastOp.ok <=> lastOp.native = Null
            /\ ~lastOp.ok => lastOp.err = PrepareLooperFailed
            /\ lastOp.ok => lastOp.out = lastOp.native /\ lastOp.out # Null)
    /\ [][lastOp'.op = "prepare" => calls' = calls]_vars

C6_Witness ==
    /\ lastOp.op = "prepare"
    /\ ~lastOp.ok
    /\ lastOp.err = PrepareLooperFailed
    /\ \E t \in Threads : first[t] # Null

\* C7 as stated: on a thread with no looper prepare succeeds and associates a
\* looper; every later prepare on the thread returns the first handle and
\* creates no looper; no thread holds more than one looper.
C7_PrepareAlwaysSucceeds ==
    lastOp.op = "prepare" =>
        /\ lastOp.ok
        /\ lastOp.out = first[lastOp.thread]
        /\ threadLooper[lastOp.thread] = lastOp.out

\* C7 amended: on a thread with no looper prepare succeeds unless the native
\* call yields null (then no looper is associated); a successful prepare
\* associates a new looper; every later prepare on the thread succeeds with
\* the first handle and creates no looper; no two threads share a looper.
C7_PrepareIdempotent ==
    /\ [](lastOp.op = "prepare" =>
            /\ lastOp.had = Null /\ lastOp.native # Null =>
                  /\ lastOp.ok /\ lastOp.out # Null
                  /\ threadLooper[lastOp.thread] = lastOp.out
            /\ lastOp.had = Null /\ lastOp.native = Null =>
                  /\ ~lastOp.ok
                  /\ threadLooper[lastOp.thread] = Null
            /\ lastOp.had # Null =>
                  /\ lastOp.ok /\ lastOp.out = lastOp.had
                  /\ threadLooper[lastOp.thread] = lastOp.had
            /\ lastOp.ok => lastOp.out = first[lastOp.thread])
    /\ [](\A t \in Threads, u \in Threads :
            t # u /\ threadLooper[t] # Null => threadLooper[t] # threadLooper[u])
    /\ [][lastOp'.op = "prepare" =>
            IF threadLooper[lastOp'.thread] # Null
            THEN Allocated' = Allocated /\ threadLooper' = threadLooper
            ELSE Cardinality(Allocated') <= Cardinality(Allocated) + 1]_vars

C7_Witness ==
    /\ lastOp.op = "prepare"
    /\ lastOp.had # Null
    /\ lastOp.ok
    /\ lastOp.out = lastOp.had
    /\ \E t \in Threads : t # lastOp.thread /\ threadLooper[t] # Null

\* C8: from_handle(h).handle() = h for every handle value, null included,
\* and neither call touches the native library or any looper state.
C8_FromHandleRoundTrip ==
    /\ [](lastOp.op = "from_handle" => lastOp.out = lastOp.arg)
    /\ [][lastOp'.op = "from_handle" => UNCHANGED nativeVars]_vars

C8_Witness ==
    /\ lastOp.op = "from_handle"
    /\ lastOp.arg # Null
    /\ status[lastOp.arg] = "live"
    /\ lastOp.out = lastOp.arg

\* C9 as stated: poll_all_blind on a LooperRef whose looper has no pending
\* callbacks returns without blocking, invokes no callback and leaves the
\* reference counts and the thread associations unchanged.
C9_PollIdleLooperNoEffect ==
    [][(/\ lastOp'.op = "poll"
        /\ IsLooper(lastOp'.arg)
        /\ ~pending[lastOp'.arg])
       => /\ lastOp'.ran = {}
          /\ ~lastOp'.blocked
          /\ pending' = pending
          /\ refcount' = refcount
          /\ threadLooper' = threadLooper]_vars

\* C9 amended: poll_all_blind called on a thread whose own looper has no
\* pending callbacks, or which has no looper, returns without blocking,
\* invokes no callback and leaves the reference counts and the thread
\* associations unchanged, whatever looper the LooperRef names.
C9_PollIdleThreadNoEffect ==
    [][(/\ lastOp'.op = "poll"
        /\ \/ threadLooper[lastOp'.thread] = Null
           \/ ~pending[threadLooper[lastOp'.thread]])
       => /\ lastOp'.ran = {}
          /\ ~lastOp'.blocked
          /\ pending' = pending
          /\ refcount' = refcount
          /\ threadLooper' = threadLooper]_vars

C9_Witness ==
    /\ lastOp.op = "poll"
    /\ lastOp.ran = {}
    /\ lastOp.had # Null
    /\ IsLooper(lastOp.arg) /\ lastOp.arg # lastOp.had
    /\ pending[lastOp.arg]

\* C10 as stated: poll_all_blind runs the pending callbacks of the looper
\* its LooperRef names: afterwards nothing is pending on that looper and no
\* callback of another looper has run, whichever thread calls.
C10_PollDrainsNamedLooper ==
    (lastOp.op = "poll" /\ IsLooper(lastOp.arg)) =>
        /\ ~pending[lastOp.arg]
        /\ lastOp.ran \subseteq {lastOp.arg}

\* C10 amended: poll_all_blind runs the pending callbacks of the calling
\* thread's looper: afterwards nothing is pending on that looper and no
\* callback of another looper has run; this is the looper the LooperRef
\* names when the call is made on the thread that looper belongs to.
C10_PollDrainsCallersLooper ==
    lastOp.op = "poll" =>
        /\ lastOp.had # Null => ~pending[lastOp.had]
        /\ lastOp.ran \subseteq ({lastOp.had} \ {Null})
        /\ lastOp.arg = lastOp.had /\ IsLooper(lastOp.arg) =>
              ~pending[lastOp.arg] /\ lastOp.ran \subseteq {lastOp.arg}

C10_Witness ==
    /\ lastOp.op = "poll"
    /\ lastOp.ran = {lastOp.had}
    /\ IsLooper(lastOp.arg) /\ lastOp.arg # lastOp.had
    /\ pending[lastOp.arg]

====
